---- MODULE Spec2Model ----
(***************************************************************************)
(* Model of the donation report generator: the service functions of        *)
(* app/core/services.py (the ledger normaliser and the analytics that      *)
(* read the ledger dataframe) and the HTTP handler of app/api/main.py.     *)
(*                                                                         *)
(* Conventions.  A dataframe is a record [exists, cols, rows]: cols is the *)
(* set of column labels, rows the sequence of donation rows.  The columns  *)
(* the analytics add (year, month, year_month) are functions of the row's  *)
(* date, so only their labels are kept.  A float is a record: NaN, Inf(s)  *)
(* or the exact fraction Frac(n, d); integer sums stay integers.  A call   *)
(* leaves [op, exc, val] in ret: exc is "none" or the exception raised.    *)
(***************************************************************************)
EXTENDS Integers, Sequences, FiniteSets, TLC

VARIABLES file, report_type, df, ret, rfm, pc, called, response

vars == <<file, report_type, df, ret, rfm, pc, called, response>>

\* ------------------------------------------------------------------ bounds

\* Rows of a ledger file handed to the service functions.
MaxRows == 2

\* Rows of a file uploaded to the HTTP endpoint.
MaxUploadRows == 2

\* Donors of an aggregated RFM table.
MaxDonors == 5

DonorIds == {1, 2}

\* A refund, a zero amount and a donation.
Amounts == {-50, 0, 50}

Dates == {<<2023, 1, 5>>, <<2023, 2, 1>>, <<2024, 1, 10>>}

\* ------------------------------------------------------------------ values

NaN == [kind |-> "nan"]

Inf(sign) == [kind |-> "inf", sign |-> sign]

Frac(n, d) == [kind |-> "num", num |-> n, den |-> d]

SeqsUpTo(S, n) == UNION {[1..k -> S] : k \in 0..n}

Range(s) == {s[i] : i \in 1..Len(s)}

RECURSIVE SumSeq(_)
SumSeq(s) == IF s = <<>> THEN 0 ELSE Head(s) + SumSeq(Tail(s))

IntLess(a, b) == a < b

PairLess(a, b) == a[1] < b[1] \/ (a[1] = b[1] /\ a[2] < b[2])

RECURSIVE SortedInts(_)
\* The integers of S, ascending.
SortedInts(S) ==
    IF S = {} THEN <<>>
    ELSE LET m == CHOOSE x \in S : \A y \in S \ {x} : IntLess(x, y)
         IN  <<m>> \o SortedInts(S \ {m})

RECURSIVE SortedPairs(_)
\* The pairs of S, ascending by first then second component.
SortedPairs(S) ==
    IF S = {} THEN <<>>
    ELSE LET m == CHOOSE x \in S : \A y \in S \ {x} : PairLess(x, y)
         IN  <<m>> \o SortedPairs(S \ {m})

Reverse(s) == [i \in 1..Len(s) |-> s[Len(s) + 1 - i]]

\* Series.mean(): NaN over no values.
Mean(sum, n) == IF n = 0 THEN NaN ELSE Frac(sum, n)

Year(d) == d[1]

Month(d) == d[2]

DateLess(a, b) ==
    \/ a[1] < b[1]
    \/ a[1] = b[1] /\ a[2] < b[2]
    \/ a[1] = b[1] /\ a[2] = b[2] /\ a[3] < b[3]

IsLeap(y) == (y % 4 = 0 /\ y % 100 # 0) \/ y % 400 = 0

DaysBeforeMonth(y, m) ==
    LET cum == <<0, 31, 59, 90, 120, 151, 181, 212, 243, 273, 304, 334>>
    IN  cum[m] + (IF m > 2 /\ IsLeap(y) THEN 1 ELSE 0)

\* The proleptic Gregorian day number of a date; differences are days.
Ordinal(d) ==
    LET y == d[1] - 1
    IN  365 * y + (y \div 4) - (y \div 100) + (y \div 400)
          + DaysBeforeMonth(d[1], d[2]) + d[3]

\* ------------------------------------------------------------------ files

SourceCols == {"usuario_id", "valor de doacao", "data"}

LedgerCols == {"donor_id", "amount", "date"}

Cell(v) == [ok |-> TRUE, v |-> v]

\* A cell that pd.to_numeric / pd.to_datetime cannot parse.
BadAmount == [ok |-> FALSE, v |-> 0]

BadDate == [ok |-> FALSE, v |-> <<0, 0, 0>>]

\* The rows a ledger file is drawn from: donor 1 with every amount, donor 2
\* with the plain donation, each on every date.
GoodRows ==
    {[donor_id |-> d, amount |-> Cell(a), date |-> Cell(t)] :
        d \in DonorIds, a \in Amounts, t \in Dates} \
    {[donor_id |-> 2, amount |-> Cell(a), date |-> Cell(t)] :
        a \in Amounts \ {50}, t \in Dates}

\* Rows with a cell that does not parse.
BadRows ==
    {[donor_id |-> 1, amount |-> BadAmount, date |-> Cell(<<2023, 1, 5>>)],
     [donor_id |-> 1, amount |-> Cell(50), date |-> BadDate]}

NoDf == [exists |-> FALSE, cols |-> {}, rows |-> <<>>]

NoRet == [op |-> "none", exc |-> "none", val |-> <<>>]

NoRfm == [stage |-> "none", rows |-> <<>>]

NoResponse == [status |-> 0, cause |-> "none", body |-> "none"]

\* --------------------------------------------------- process_excel_file

RenameColumn(c) ==
    CASE c = "usuario_id" -> "donor_id"
      [] c = "valor de doacao" -> "amount"
      [] c = "data" -> "date"
      [] OTHER -> c

IndexPermutations(n) ==
    {p \in [1..n -> 1..n] : \A i, j \in 1..n : i # j => p[i] # p[j]}

\* df.sort_values('date') with the default kind='quicksort', which is not a
\* stable sort: rows of equal date come out in an order the build decides.
SortValues(rows) ==
    LET n == Len(rows)
        sorted(p) == \A i \in 1..n - 1 : ~DateLess(rows[p[i + 1]].date, rows[p[i]].date)
    IN  {[i \in 1..n |-> rows[p[i]]] : p \in {q \in IndexPermutations(n) : sorted(q)}}

ParseRow(r) == [donor_id |-> r.donor_id, amount |-> r.amount.v, date |-> r.date.v]

\* process_excel_file as it would be with errors='coerce' and the rows
\* that failed dropped: a best-effort ledger of the rows that parse.
ProcessExcelFileBestEffort(f) ==
    LET cols == {RenameColumn(c) : c \in f.cols}
        good == SelectSeq(f.rows, LAMBDA r : r.date.ok /\ r.amount.ok)
        raise == {[exc |-> "ValueError", df |-> NoDf]}
    IN  IF ~f.parquet THEN raise
        ELSE IF "date" \notin cols \/ "amount" \notin cols THEN raise
        ELSE {[exc |-> "none", df |-> [exists |-> TRUE, cols |-> cols, rows |-> s]] :
                 s \in SortValues([i \in 1..Len(good) |-> ParseRow(good[i])])}

\* The outcomes of process_excel_file: every failure inside the try block
\* (read_parquet, a missing column, to_datetime, to_numeric on a cell that
\* does not parse) is re-raised as ValueError and no frame is returned;
\* otherwise the renamed, converted, sorted frame.
ProcessExcelFileOutcomes(f) ==
    LET cols == {RenameColumn(c) : c \in f.cols}
        n == Len(f.rows)
        raise == {[exc |-> "ValueError", df |-> NoDf]}
    IN  IF ~f.parquet THEN raise
        ELSE IF "date" \notin cols THEN raise
        ELSE IF \E i \in 1..n : ~f.rows[i].date.ok THEN raise
        ELSE IF "amount" \notin cols THEN raise
        ELSE IF \E i \in 1..n : ~f.rows[i].amount.ok THEN raise
        ELSE {[exc |-> "none", df |-> [exists |-> TRUE, cols |-> cols, rows |-> s]] :
                 s \in SortValues([i \in 1..n |-> ParseRow(f.rows[i])])}

\* -------------------------------------------- calculate_overall_metrics

AmountsOf(rows) == [i \in 1..Len(rows) |-> rows[i].amount]

DonorsOf(rows) == {rows[i].donor_id : i \in 1..Len(rows)}

RowsOfDonor(rows, d) == SelectSeq(rows, LAMBDA r : r.donor_id = d)

OverallMetrics(rows) ==
    LET donors == SortedInts(DonorsOf(rows))
        perDonor == [i \in 1..Len(donors) |->
                        SumSeq(AmountsOf(RowsOfDonor(rows, donors[i])))]
    IN  [total_raised |-> SumSeq(AmountsOf(rows)),
         total_refunded |-> SumSeq(AmountsOf(SelectSeq(rows, LAMBDA r : r.amount < 0))),
         unique_donors |-> Cardinality(DonorsOf(rows)),
         total_donations |-> Len(rows),
         avg_ticket |-> Mean(SumSeq(AmountsOf(rows)), Len(rows)),
         ltv |-> Mean(SumSeq(perDonor), Len(perDonor))]

\* ------------------------------------------------------ period grouping

MonthKey(r) == <<Year(r.date), Month(r.date)>>

YearKey(r) == Year(r.date)

MonthGroupsDescending(rows) == Reverse(SortedPairs({MonthKey(rows[i]) : i \in 1..Len(rows)}))

\* The groups of df.groupby(['year', 'month']) with the default sort=True:
\* one per observed (year, month), in ascending key order.
MonthGroups(rows) == SortedPairs({MonthKey(rows[i]) : i \in 1..Len(rows)})

\* The groups of df.groupby(df['date'].dt.year): one per observed year,
\* in ascending order.
YearGroups(rows) == SortedInts({YearKey(rows[i]) : i \in 1..Len(rows)})

RowsOfMonth(rows, k) == SelectSeq(rows, LAMBDA r : MonthKey(r) = k)

RowsOfYear(rows, y) == SelectSeq(rows, LAMBDA r : YearKey(r) = y)

\* -------------------------------------------- calculate_monthly_metrics

\* One retention rate per monthly bucket: the share of the preceding
\* bucket's donors that are active in this one, in percent; absent (NaN)
\* for the first bucket and when the preceding bucket has no donor.
CalculateRetention(rows) ==
    LET keys == MonthGroups(rows)
        active(i) == DonorsOf(RowsOfMonth(rows, keys[i]))
    IN  [i \in 1..Len(keys) |->
            IF i = 1 \/ active(i - 1) = {} THEN NaN
            ELSE Frac(Cardinality(active(i) \cap active(i - 1)) * 100,
                      Cardinality(active(i - 1)))]

\* calculate_monthly_metrics with the retention column filled
\* (retention_rate.fillna(0)): no absent marker survives.
MonthlyMetricsRetentionFilled(rows) ==
    LET keys == MonthGroups(rows)
        retention == CalculateRetention(rows)
        bucket(i) ==
            LET g == RowsOfMonth(rows, keys[i])
            IN  [year |-> keys[i][1],
                 month |-> keys[i][2],
                 total |-> SumSeq(AmountsOf(g)),
                 unique_donors |-> Cardinality(DonorsOf(g)),
                 avg_ticket |-> Mean(SumSeq(AmountsOf(g)), Len(g)),
                 retention_rate |-> IF retention[i] = NaN THEN Frac(0, 1)
                                    ELSE retention[i]]
    IN  [i \in 1..Len(keys) |-> bucket(i)]

MonthlyMetrics(rows) ==
    LET keys == MonthGroups(rows)
        retention == CalculateRetention(rows)
        bucket(i) ==
            LET g == RowsOfMonth(rows, keys[i])
            IN  [year |-> keys[i][1],
                 month |-> keys[i][2],
                 total |-> SumSeq(AmountsOf(g)),
                 unique_donors |-> Cardinality(DonorsOf(g)),
                 avg_ticket |-> Mean(SumSeq(AmountsOf(g)), Len(g)),
                 retention_rate |-> retention[i]]
    IN  [i \in 1..Len(keys) |-> bucket(i)]

\* --------------------------------------------- calculate_annual_metrics

PctChangeZeroFilled(s) ==
    [i \in 1..Len(s) |->
        IF i = 1 THEN NaN
        ELSE IF s[i - 1] = 0 THEN Frac(0, 1)
        ELSE Frac((s[i] - s[i - 1]) * 100, s[i - 1])]

\* Series.pct_change() * 100: s[i] / s[i-1] - 1 in floating point, so a zero
\* base gives nan (0/0) or a signed infinity; the first entry has no base.
PctChange(s) ==
    [i \in 1..Len(s) |->
        IF i = 1 THEN NaN
        ELSE IF s[i - 1] = 0
             THEN (IF s[i] = 0 THEN NaN ELSE IF s[i] > 0 THEN Inf(1) ELSE Inf(-1))
        ELSE Frac((s[i] - s[i - 1]) * 100, s[i - 1])]

\* Per annual bucket, the donors whose first donation of the whole ledger
\* falls in the bucket's year.
CalculateNewDonors(rows) ==
    LET keys == YearGroups(rows)
        first(d) == CHOOSE y \in Range(keys) :
                        /\ RowsOfDonor(RowsOfYear(rows, y), d) # <<>>
                        /\ \A z \in Range(keys) :
                              RowsOfDonor(RowsOfYear(rows, z), d) # <<>> => y <= z
    IN  [i \in 1..Len(keys) |->
            Cardinality({d \in DonorsOf(rows) : first(d) = keys[i]})]

\* Per annual bucket, the donors seen in an earlier bucket that have no
\* donation in this one (the trailing window is the bucket itself).
CalculateChurnedDonors(rows) ==
    LET keys == YearGroups(rows)
        active(i) == DonorsOf(RowsOfYear(rows, keys[i]))
    IN  [i \in 1..Len(keys) |->
            Cardinality({d \in DonorsOf(rows) :
                            /\ d \notin active(i)
                            /\ \E j \in 1..i - 1 : d \in active(j)})]

AnnualMetrics(rows) ==
    LET keys == YearGroups(rows)
        totals == [i \in 1..Len(keys) |-> SumSeq(AmountsOf(RowsOfYear(rows, keys[i])))]
        growth == PctChange(totals)
        fresh == CalculateNewDonors(rows)
        churned == CalculateChurnedDonors(rows)
    IN  [i \in 1..Len(keys) |->
            [year |-> keys[i],
             total |-> totals[i],
             unique_donors |-> Cardinality(DonorsOf(RowsOfYear(rows, keys[i]))),
             growth_rate |-> growth[i],
             new_donors |-> fresh[i],
             churned_donors |-> churned[i]]]

\* ---------------------------------------------- generate_plotly_figures

\* The data of the two figures: the monthly trend and the annual bars.
PlotlyFigures(rows) ==
    LET months == MonthGroups(rows)
        years == YearGroups(rows)
    IN  [trend_plot |->
            [i \in 1..Len(months) |->
                [year_month |-> months[i],
                 amount |-> SumSeq(AmountsOf(RowsOfMonth(rows, months[i])))]],
         annual_plot |->
            [i \in 1..Len(years) |->
                [date |-> years[i],
                 total |-> SumSeq(AmountsOf(RowsOfYear(rows, years[i]))),
                 donors |-> Cardinality(DonorsOf(RowsOfYear(rows, years[i])))]]]

\* ----------------------------------------------- calculate_rfm_segments

\* q of pd.qcut(..., q=3, ...).
TertileCount == 3

RecencyLabels == <<3, 2, 1>>

DirectLabels == <<1, 2, 3>>

MaxDate(rows) ==
    CHOOSE d \in {rows[i].date : i \in 1..Len(rows)} :
        \A i \in 1..Len(rows) : ~DateLess(d, rows[i].date)

\* df.groupby('donor_id').agg(...): one row per donor, in donor order, with
\* the days from the snapshot date (the ledger's last date plus one day) to
\* the donor's last donation, the donor's row count and amount sum.
RfmTable(rows) ==
    LET donors == SortedInts(DonorsOf(rows))
        snapshot == Ordinal(MaxDate(rows)) + 1
    IN  [i \in 1..Len(donors) |->
            LET g == RowsOfDonor(rows, donors[i])
            IN  [donor_id |-> donors[i],
                 recency |-> snapshot - Ordinal(MaxDate(g)),
                 frequency |-> Len(g),
                 monetary |-> SumSeq(AmountsOf(g))]]

\* TertileCount times the k-th quantile edge (k = 0..TertileCount) of the
\* ascending values s, by linear interpolation between neighbours.
QuantileEdge(s, k) ==
    LET pos == k * (Len(s) - 1)
        lo == pos \div TertileCount
        rem == pos % TertileCount
    IN  IF rem = 0 THEN TertileCount * s[lo + 1]
        ELSE TertileCount * s[lo + 1] + rem * (s[lo + 2] - s[lo + 1])

\* qcut over the position-broken ranks of the values (rank(method='first')):
\* bins of equal population, ties split by row position.
QcutRankFirst(vals, labels) ==
    LET n == Len(vals)
        rank == [i \in 1..n |->
                    1 + Cardinality({j \in 1..n : vals[j] < vals[i]})
                      + Cardinality({j \in 1..i - 1 : vals[j] = vals[i]})]
        s == SortSeq(rank, IntLess)
        edges == [k \in 1..TertileCount + 1 |-> QuantileEdge(s, k - 1)]
        bin(x) == IF TertileCount * x = edges[1] THEN 1
                  ELSE Cardinality({k \in 1..TertileCount + 1 : edges[k] < TertileCount * x})
    IN  IF n = 0 \/ Cardinality(Range(edges)) < TertileCount + 1
        THEN [exc |-> "ValueError", codes |-> <<>>]
        ELSE [exc |-> "none", codes |-> [i \in 1..n |-> labels[bin(rank[i])]]]

\* pd.qcut(vals, q=3, labels=labels): the bin edges are the quantiles of the
\* values; duplicate edges raise ValueError (duplicates='raise'); a value
\* falls in the bin (edge[b-1], edge[b]], the lowest edge included.
Qcut(vals, labels) ==
    LET n == Len(vals)
        s == SortSeq(vals, IntLess)
        edges == [k \in 1..TertileCount + 1 |-> QuantileEdge(s, k - 1)]
        bin(x) == IF TertileCount * x = edges[1] THEN 1
                  ELSE Cardinality({k \in 1..TertileCount + 1 : edges[k] < TertileCount * x})
    IN  IF n = 0 \/ Cardinality(Range(edges)) < TertileCount + 1
        THEN [exc |-> "ValueError", codes |-> <<>>]
        ELSE [exc |-> "none", codes |-> [i \in 1..n |-> labels[bin(vals[i])]]]

\* r_score.astype(str) + f_score.astype(str) + m_score.astype(str)
RfmScore(r, f, m) == ToString(r) \o ToString(f) \o ToString(m)

\* segment_map: each regex is an alternation of three-digit literals, kept
\* as the set of strings it matches.
SegmentMap ==
    << [pattern |-> {"111", "112", "121", "131", "211", "221", "311"},
        segment |-> "inativo"],
       [pattern |-> {"123", "132", "213", "222", "231", "321", "312"},
        segment |-> "em risco"],
       [pattern |-> {"113", "122", "133", "212", "223", "232", "233", "322"},
        segment |-> "potencial"],
       [pattern |-> {"323", "332", "333"},
        segment |-> "leal"] >>

RECURSIVE ReplaceFrom(_, _)
ReplaceFrom(value, i) ==
    IF i > Len(SegmentMap) THEN value
    ELSE ReplaceFrom(IF value \in SegmentMap[i].pattern
                     THEN SegmentMap[i].segment ELSE value, i + 1)

\* Series.replace(segment_map, regex=True) on one value: each pattern in
\* turn rewrites the value it matches; a value no pattern matches is kept.
ReplaceSegment(score) == ReplaceFrom(score, 1)

\* The body of calculate_rfm_segments from the aggregated table on: the three
\* qcut calls, the score string and the segment, then the per-segment
\* aggregation, whose agg dict names 'donor_id', the index of rfm and no
\* column of it, so that the call raises KeyError.  rfm is the local frame
\* as it stands when the function is left.
RfmSegmentsOutcome(table) ==
    LET n == Len(table)
        r == Qcut([i \in 1..n |-> table[i].recency], RecencyLabels)
        f == Qcut([i \in 1..n |-> table[i].frequency], DirectLabels)
        m == Qcut([i \in 1..n |-> table[i].monetary], DirectLabels)
        scored == [i \in 1..n |->
                     [donor_id |-> table[i].donor_id,
                      recency |-> table[i].recency,
                      frequency |-> table[i].frequency,
                      monetary |-> table[i].monetary,
                      r_score |-> r.codes[i],
                      f_score |-> f.codes[i],
                      m_score |-> m.codes[i],
                      rfm_score |-> RfmScore(r.codes[i], f.codes[i], m.codes[i]),
                      segment |-> ReplaceSegment(
                                      RfmScore(r.codes[i], f.codes[i], m.codes[i]))]]
    IN  IF r.exc # "none" \/ f.exc # "none" \/ m.exc # "none"
        THEN [exc |-> "ValueError", rfm |-> [stage |-> "aggregated", rows |-> table]]
        ELSE [exc |-> "KeyError", rfm |-> [stage |-> "segmented", rows |-> scored]]

\* ------------------------------------------------ analyze_donation_data

\* The frame's columns after calculate_monthly_metrics (df['year'] = ...,
\* df['month'] = ...) and after generate_plotly_figures (df['year_month']).
MonthlyCols(cols) == cols \cup {"year", "month"}

PlotlyCols(cols) == cols \cup {"year_month"}

\* analyze_donation_data builds its dict in order: overall, monthly, annual,
\* rfm, plots.  The first call that raises ends it; the frame keeps the
\* columns added up to there.
AnalyzeOutcome(d) ==
    LET o == RfmSegmentsOutcome(RfmTable(d.rows))
    IN  IF o.exc # "none"
        THEN [exc |-> o.exc,
              df |-> [d EXCEPT !.cols = MonthlyCols(d.cols)],
              val |-> <<>>]
        ELSE [exc |-> "none",
              df |-> [d EXCEPT !.cols = PlotlyCols(MonthlyCols(d.cols))],
              val |-> [overall_metrics |-> OverallMetrics(d.rows),
                       monthly_metrics |-> MonthlyMetrics(d.rows),
                       annual_metrics |-> AnnualMetrics(d.rows),
                       plots |-> PlotlyFigures(d.rows)]]

\* ------------------------------------------------- generate_html_report

\* The report templates shipped beside services.py: <name>_report.html.
TemplateNames == {"default"}

\* template_env.get_template raises TemplateNotFound for an unknown name.
HtmlReportOutcome(name) ==
    IF name \in TemplateNames THEN [exc |-> "none", body |-> "html"]
    ELSE [exc |-> "TemplateNotFound", body |-> "none"]

\* ------------------------------------------------------ the service calls

GoodFiles ==
    {[filename |-> <<"ledger", ".parquet">>, parquet |-> TRUE, cols |-> SourceCols,
      rows |-> r] : r \in SeqsUpTo(GoodRows, MaxRows)}

Init ==
    /\ file \in GoodFiles
    /\ report_type = "default"
    /\ df = NoDf
    /\ ret = NoRet
    /\ rfm = NoRfm
    /\ pc = "idle"
    /\ called = <<>>
    /\ response = NoResponse

ProcessExcelFile ==
    /\ ~df.exists
    /\ \E o \in ProcessExcelFileOutcomes(file) :
          /\ df' = o.df
          /\ ret' = [op |-> "process_excel_file", exc |-> o.exc, val |-> <<>>]
    /\ rfm' = NoRfm
    /\ UNCHANGED <<file, report_type, pc, called, response>>

CalculateOverallMetrics ==
    /\ df.exists
    /\ ret' = [op |-> "calculate_overall_metrics", exc |-> "none",
               val |-> OverallMetrics(df.rows)]
    /\ rfm' = NoRfm
    /\ UNCHANGED <<file, report_type, df, pc, called, response>>

CalculateMonthlyMetrics ==
    /\ df.exists
    /\ df' = [df EXCEPT !.cols = MonthlyCols(df.cols)]
    /\ ret' = [op |-> "calculate_monthly_metrics", exc |-> "none",
               val |-> MonthlyMetrics(df.rows)]
    /\ rfm' = NoRfm
    /\ UNCHANGED <<file, report_type, pc, called, response>>

CalculateAnnualMetrics ==
    /\ df.exists
    /\ ret' = [op |-> "calculate_annual_metrics", exc |-> "none",
               val |-> AnnualMetrics(df.rows)]
    /\ rfm' = NoRfm
    /\ UNCHANGED <<file, report_type, df, pc, called, response>>

CalculateRfmSegments ==
    /\ df.exists
    /\ LET o == RfmSegmentsOutcome(RfmTable(df.rows))
       IN  /\ rfm' = o.rfm
           /\ ret' = [op |-> "calculate_rfm_segments", exc |-> o.exc, val |-> <<>>]
    /\ UNCHANGED <<file, report_type, df, pc, called, response>>

GeneratePlotlyFigures ==
    /\ df.exists
    /\ df' = [df EXCEPT !.cols = PlotlyCols(df.cols)]
    /\ ret' = [op |-> "generate_plotly_figures", exc |-> "none",
               val |-> PlotlyFigures(df.rows)]
    /\ rfm' = NoRfm
    /\ UNCHANGED <<file, report_type, pc, called, response>>

AnalyzeDonationData ==
    /\ df.exists
    /\ LET o == AnalyzeOutcome(df)
       IN  /\ df' = o.df
           /\ ret' = [op |-> "analyze_donation_data", exc |-> o.exc, val |-> o.val]
    /\ rfm' = NoRfm
    /\ UNCHANGED <<file, report_type, pc, called, response>>

Next ==
    \/ ProcessExcelFile
    \/ CalculateOverallMetrics
    \/ CalculateMonthlyMetrics
    \/ CalculateAnnualMetrics
    \/ CalculateRfmSegments
    \/ GeneratePlotlyFigures
    \/ AnalyzeDonationData

Spec == Init /\ [][Next]_vars

\* ------------------------------------------------------- generate_report

Filenames == {<<"ledger", ".parquet">>, <<"ledger", ".xlsx">>}

\* str.endswith on a name kept as its stem and suffixes.
EndsWith(name, suffix) == Len(name) > 0 /\ name[Len(name)] = suffix

Headers == {SourceCols, LedgerCols, {"usuario_id", "valor de doacao", "dia"}}

\* The uploads: a parquet file of up to MaxUploadRows rows under one of the
\* headers, or a file that is no parquet file at all, under either name.
Uploads ==
    {[filename |-> n, parquet |-> TRUE, cols |-> c, rows |-> r] :
        n \in Filenames, c \in Headers,
        r \in SeqsUpTo(GoodRows \cup BadRows, MaxUploadRows)} \cup
    {[filename |-> n, parquet |-> FALSE, cols |-> {}, rows |-> <<>>] : n \in Filenames}

InitApi ==
    /\ file \in Uploads
    /\ report_type \in {"default", "custom"}
    /\ df = NoDf
    /\ ret = NoRet
    /\ rfm = NoRfm
    /\ pc = "idle"
    /\ called = <<>>
    /\ response = NoResponse

\* generate_report up to its await: the filename check.  The
\* HTTPException(400) is raised inside the try block, whose
\* `except Exception` catches it (HTTPException is an Exception) and raises
\* HTTPException(500) in its place.
GenerateReportBegin ==
    /\ pc = "idle"
    /\ IF ~EndsWith(file.filename, ".parquet")
       THEN /\ response' = [status |-> 500, cause |-> "HTTPException400", body |-> "none"]
            /\ pc' = "done"
            /\ called' = called
       ELSE /\ response' = response
            /\ pc' = "reading"
            /\ called' = Append(called, "file.read")
    /\ UNCHANGED <<file, report_type, df, ret, rfm>>

\* What read_parquet finds under tmp.name: tmp.write(...) is not flushed
\* before process_excel_file opens the path, so an upload that fits the
\* temp file's write buffer is still in memory and the file on disk is
\* empty (no parquet file); a larger one has been written through.
TempFileOnDisk(f, written) ==
    IF written THEN f
    ELSE [filename |-> f.filename, parquet |-> FALSE, cols |-> {}, rows |-> <<>>]

\* generate_report from the await on: process_excel_file, then
\* analyze_donation_data, then generate_html_report; any exception becomes
\* HTTPException(500).  df and report_data are locals of the handler.
GenerateReportResume ==
    /\ pc = "reading"
    /\ \E written \in BOOLEAN :
       \E o \in ProcessExcelFileOutcomes(TempFileOnDisk(file, written)) :
          IF o.exc # "none"
          THEN /\ called' = Append(called, "process_excel_file")
               /\ response' = [status |-> 500, cause |-> o.exc, body |-> "none"]
          ELSE LET a == AnalyzeOutcome(o.df)
                   h == HtmlReportOutcome(report_type)
               IN  IF a.exc # "none"
                   THEN /\ called' = called \o <<"process_excel_file", "analyze_donation_data">>
                        /\ response' = [status |-> 500, cause |-> a.exc, body |-> "none"]
                   ELSE /\ called' = called \o <<"process_excel_file", "analyze_donation_data",
                                                 "generate_html_report">>
                        /\ response' = IF h.exc # "none"
                                       THEN [status |-> 500, cause |-> h.exc, body |-> "none"]
                                       ELSE [status |-> 200, cause |-> "none", body |-> h.body]
    /\ pc' = "done"
    /\ UNCHANGED <<file, report_type, df, ret, rfm>>

NextApi == GenerateReportBegin \/ GenerateReportResume

SpecApi == InitApi /\ [][NextApi]_vars

\* ------------------------------------- calculate_rfm_segments on a table

\* Donor profiles <<recency, frequency, monetary>> an aggregated table is
\* drawn from.
Profiles ==
    {<<1, 1, 150>>, <<1, 3, 50>>, <<1, 3, 150>>, <<10, 2, 100>>,
     <<10, 2, 50>>, <<100, 3, 50>>, <<100, 1, 150>>, <<100, 1, 50>>}

ProfileRows ==
    {[donor_id |-> 0, recency |-> p[1], frequency |-> p[2], monetary |-> p[3]] :
        p \in Profiles}

\* The aggregated tables of up to MaxDonors donors.  The donor who gave last
\* is one day before the snapshot date, so some recency is 1.
RfmTables ==
    {t \in UNION {[1..n -> ProfileRows] : n \in 1..MaxDonors} :
        \E i \in 1..Len(t) : t[i].recency = 1}

WithDonorIds(t) == [i \in 1..Len(t) |-> [t[i] EXCEPT !.donor_id = i]]

\* The state on entry to the scoring part of calculate_rfm_segments: only
\* the aggregated table is kept, the ledger it was grouped from is not.
InitRfm ==
    /\ file = [filename |-> <<"ledger", ".parquet">>, parquet |-> TRUE,
               cols |-> SourceCols, rows |-> <<>>]
    /\ report_type = "default"
    /\ df = NoDf
    /\ ret = NoRet
    /\ \E t \in RfmTables : rfm = [stage |-> "aggregated", rows |-> WithDonorIds(t)]
    /\ pc = "idle"
    /\ called = <<>>
    /\ response = NoResponse

\* calculate_rfm_segments from its aggregated table on (after the groupby
\* of the ledger by donor).
CalculateRfmSegmentsOnTable ==
    /\ rfm.stage = "aggregated"
    /\ ret.op = "none"
    /\ LET o == RfmSegmentsOutcome(rfm.rows)
       IN  /\ rfm' = o.rfm
           /\ ret' = [op |-> "calculate_rfm_segments", exc |-> o.exc, val |-> <<>>]
    /\ UNCHANGED <<file, report_type, df, pc, called, response>>

NextRfm == CalculateRfmSegmentsOnTable

SpecRfm == InitRfm /\ [][NextRfm]_vars

\* ================================================================ claims

SegmentNames == {"inativo", "em risco", "potencial", "leal"}

ServiceReturned(op) == ret.op = op /\ ret.exc = "none"

\* C1: the score-to-segment lookup is total: every score string the
\* segmenter builds from r, f, m in {1,2,3} resolves to one of the four
\* named segments.
C1_LookupTotal ==
    rfm.stage = "segmented" =>
        \A i \in 1..Len(rfm.rows) : rfm.rows[i].segment \in SegmentNames

IsZero(x) == x.kind = "num" /\ x.num = 0

\* C2: on an empty ledger calculate_overall_metrics returns zero in every
\* field, avg_ticket and ltv included, and analyze_donation_data returns
\* empty monthly, annual and segment sequences without raising.
C2_EmptyLedgerAllZero ==
    /\ (ret.op = "calculate_overall_metrics" /\ df.rows = <<>>) =>
          /\ ret.exc = "none"
          /\ ret.val.total_raised = 0
          /\ ret.val.total_refunded = 0
          /\ ret.val.unique_donors = 0
          /\ ret.val.total_donations = 0
          /\ IsZero(ret.val.avg_ticket)
          /\ IsZero(ret.val.ltv)
    /\ (ret.op = "analyze_donation_data" /\ df.rows = <<>>) =>
          /\ ret.exc = "none"
          /\ ret.val.monthly_metrics = <<>>
          /\ ret.val.annual_metrics = <<>>

\* The positions of the ledger's rows dated in month m of year y, and in year y.
RowsInMonth(y, m) ==
    {k \in 1..Len(df.rows) : df.rows[k].date[1] = y /\ df.rows[k].date[2] = m}

RowsInYear(y) == {k \in 1..Len(df.rows) : df.rows[k].date[1] = y}

RECURSIVE SumAmountsAt(_)
SumAmountsAt(K) ==
    IF K = {} THEN 0
    ELSE LET k == CHOOSE x \in K : TRUE
         IN  df.rows[k].amount + SumAmountsAt(K \ {k})

MonthlyBucketsOk(b) ==
    LET in(i) == RowsInMonth(b[i].year, b[i].month)
    IN  /\ \A i \in 1..Len(b) - 1 :
              \/ b[i].year < b[i + 1].year
              \/ b[i].year = b[i + 1].year /\ b[i].month < b[i + 1].month
        /\ \A i \in 1..Len(b) :
              /\ in(i) # {}
              /\ b[i].total = SumAmountsAt(in(i))
              /\ b[i].avg_ticket = Frac(SumAmountsAt(in(i)), Cardinality(in(i)))
        /\ \A k \in 1..Len(df.rows) : Cardinality({i \in 1..Len(b) : k \in in(i)}) = 1

AnnualBucketsOk(b) ==
    LET in(i) == RowsInYear(b[i].year)
    IN  /\ \A i \in 1..Len(b) - 1 : b[i].year < b[i + 1].year
        /\ \A i \in 1..Len(b) :
              /\ in(i) # {}
              /\ b[i].total = SumAmountsAt(in(i))
        /\ \A k \in 1..Len(df.rows) : Cardinality({i \in 1..Len(b) : k \in in(i)}) = 1

\* C3: the monthly and the annual buckets are strictly chronologically
\* ascending, hold only observed periods, and every donation of the ledger
\* is counted in exactly one monthly and exactly one annual bucket.
C3_PeriodBuckets ==
    /\ ret.op = "calculate_monthly_metrics" =>
          ret.exc = "none" /\ MonthlyBucketsOk(ret.val)
    /\ ret.op = "calculate_annual_metrics" =>
          ret.exc = "none" /\ AnnualBucketsOk(ret.val)

\* A ledger given latest row first, with a gap between its two months.
C3_Witness ==
    /\ ServiceReturned("calculate_monthly_metrics")
    /\ Len(file.rows) = 2
    /\ file.rows[1].date.v = <<2024, 1, 10>>
    /\ file.rows[2].date.v = <<2023, 1, 5>>
    /\ Len(ret.val) = 2
    /\ ret.val[1].year = 2023
    /\ ret.val[2].year = 2024

ActiveDonors(b) ==
    {df.rows[k].donor_id : k \in RowsInMonth(b.year, b.month)}

C5_GrowthSentinel ==
    ret.op = "calculate_annual_metrics" =>
        \A i \in 2..Len(ret.val) :
            (ret.val[i - 1].total = 0 /\ ret.val[i].total # 0) =>
                /\ ret.val[i].growth_rate.kind = "inf"
                /\ ret.val[i].growth_rate.sign = (IF ret.val[i].total > 0 THEN 1 ELSE -1)

C5_Witness ==
    /\ ServiceReturned("calculate_annual_metrics")
    /\ Len(ret.val) = 2
    /\ ret.val[1].total = 0
    /\ ret.val[2].total # 0

\* C6: the ledger is never mutated after normalization: whatever service
\* calls have returned, the frame still has the columns (and rows)
\* process_excel_file gave it.
C6_LedgerNotMutated ==
    df.exists =>
        /\ df.cols = {RenameColumn(c) : c \in file.cols}
        /\ \E o \in ProcessExcelFileOutcomes(file) : o.df.rows = df.rows

RECURSIVE InsertByDate(_, _)
\* s with row r placed after every row whose date is not later than r's.
InsertByDate(s, r) ==
    IF s = <<>> THEN <<r>>
    ELSE IF DateLess(r.date, Head(s).date) THEN <<r>> \o s
    ELSE <<Head(s)>> \o InsertByDate(Tail(s), r)

RECURSIVE StableSortByDate(_)
StableSortByDate(s) ==
    IF s = <<>> THEN <<>>
    ELSE InsertByDate(StableSortByDate(SubSeq(s, 1, Len(s) - 1)), s[Len(s)])

\* C7: the ledger process_excel_file returns is sorted ascending by date
\* and rows of equal date keep their input order.
C7_StableSort ==
    ServiceReturned("process_excel_file") =>
        df.rows = StableSortByDate([i \in 1..Len(file.rows) |-> ParseRow(file.rows[i])])

SameProfile(a, b) ==
    a.recency = b.recency /\ a.frequency = b.frequency /\ a.monetary = b.monetary

HasBadCell(f) == \E i \in 1..Len(f.rows) : ~f.rows[i].amount.ok \/ ~f.rows[i].date.ok

\* C9: when a row fails amount or date coercion, process_excel_file fails
\* as a whole (ValueError, no ledger) and the request is aborted:
\* generate_report calls neither analyze_donation_data nor
\* generate_html_report and answers with no report.
C9_MalformedRowAborts ==
    HasBadCell(file) =>
        /\ "analyze_donation_data" \notin Range(called)
        /\ "generate_html_report" \notin Range(called)
        /\ response.body = "none"
        /\ "process_excel_file" \in Range(called) => response.cause = "ValueError"
        /\ pc = "done" => response.status = 500

\* A well-named, well-headed upload whose first row parses and whose second
\* does not, after process_excel_file was called on it.
C9_Witness ==
    /\ pc = "done"
    /\ "process_excel_file" \in Range(called)
    /\ Len(file.rows) = 2
    /\ file.rows[1].amount.ok /\ file.rows[1].date.ok
    /\ ~file.rows[2].amount.ok
    /\ file.cols = SourceCols

\* C10: a filename that does not end with '.parquet' is answered with
\* status 400 without reading or processing the file, and status 500 is
\* answered only after a failure of processing, analysis or rendering.
C10_InvalidFormat400 ==
    pc = "done" =>
        /\ ~EndsWith(file.filename, ".parquet") =>
              response.status = 400 /\ called = <<>>
        /\ response.status = 500 => "process_excel_file" \in Range(called)

====
